---- MODULE Spec2Model ----
(***************************************************************************)
(* A model of ultimate_decoder.py, the evidence-based decoder for the      *)
(* Trident puzzle artifacts.  Strings are sequences of one-character       *)
(* strings, so that slicing, formatting and pattern search are computed    *)
(* position by position, as the Python code computes them.                 *)
(***************************************************************************)
EXTENDS Integers, Sequences, FiniteSets, TLC

VARIABLES
    pc,             \* the control point of the operation under way
    audio_exists,   \* whether AUDIO_FILE exists
    sample_rate,    \* the waveform's frame rate (params.framerate)
    samples,        \* the waveform's signed 16-bit samples
    peaks,          \* decode_phone_from_peaks: peaks
    digits,         \* decode_phone_from_peaks: digits (the Digit Stream)
    candidates,     \* decode_phone_from_peaks: candidates, <<offset, window>>
    phone,          \* decode_phone_from_peaks: the returned string
    n,              \* is_valid_nanp: its argument
    valid,          \* is_valid_nanp: its result
    pdf,            \* what extract_pdf_text meets: "missing", "no_pdftotext",
                    \* "pdftotext_failed" or "ok"
    document,       \* the text pdftotext prints for CLUE_PDF
    clue_text,      \* the document text, the text argument of the document rules
    fields,         \* the Field Mapping
    word,           \* the text argument of text_to_morse
    morse,          \* text_to_morse's result (main: canonical_morse)
    roundtrip,      \* morse_to_text's result
    timer, location, email, web, password   \* the final answers

vars ==
    <<pc, audio_exists, sample_rate, samples, peaks, digits, candidates, phone,
      n, valid, pdf, document, clue_text, fields, word, morse, roundtrip,
      timer, location, email, web, password>>

waveVars == <<audio_exists, sample_rate, samples>>
phoneVars == <<peaks, digits, candidates, phone>>
nanpVars == <<n, valid>>
docVars == <<pdf, document>>
morseVars == <<word, morse, roundtrip>>
answerVars == <<timer, location, email, web, password>>

(***************************************************************************)
(* Bounds of the model.                                                    *)
(***************************************************************************)
PatLen == 3         \* longest repeated sample pattern of a waveform
MaxFrags == 3       \* most fragments a text argument is put together from
MaxWord == 4        \* longest text given to the Morse codec
MaxDocFrags == 2    \* most fragments the clue document is put together from
MaxShort == 13      \* most pattern samples of a short waveform
ExtraLong == 3      \* how far a long waveform goes past the 100-peak limit

(***************************************************************************)
(* Python helpers.                                                         *)
(***************************************************************************)
Min(a, b) == IF a < b THEN a ELSE b
Max(a, b) == IF a < b THEN b ELSE a
Abs(x) == IF x < 0 THEN -x ELSE x

\* s[lo:hi] for 0 <= lo, 0 <= hi: a slice is clipped to the sequence
PySlice(s, lo, hi) == SubSeq(s, lo + 1, Min(hi, Len(s)))

DigitChars == <<"0", "1", "2", "3", "4", "5", "6", "7", "8", "9">>
DigitSet == {DigitChars[i] : i \in 1..10}

\* str(d) for a single digit d
DigitStr(d) == DigitChars[d + 1]

\* int(c) for a single digit character c
DigitVal(c) == CHOOSE d \in 0..9 : DigitChars[d + 1] = c

\* str.isdigit() on the characters of the model (all ASCII)
IsDigitStr(s) == Len(s) > 0 /\ \A i \in 1..Len(s) : s[i] \in DigitSet

RECURSIVE ParseInt(_)
\* int(s) for a string of digits
ParseInt(s) ==
    IF s = <<>> THEN 0
    ELSE 10 * ParseInt(SubSeq(s, 1, Len(s) - 1)) + DigitVal(s[Len(s)])

(***************************************************************************)
(* Characters and the str methods the code uses.                           *)
(***************************************************************************)
LowerLetters ==
    <<"a", "b", "c", "d", "e", "f", "g", "h", "i", "j", "k", "l", "m",
      "n", "o", "p", "q", "r", "s", "t", "u", "v", "w", "x", "y", "z">>
UpperLetters ==
    <<"A", "B", "C", "D", "E", "F", "G", "H", "I", "J", "K", "L", "M",
      "N", "O", "P", "Q", "R", "S", "T", "U", "V", "W", "X", "Y", "Z">>
LowerSet == {LowerLetters[i] : i \in 1..Len(LowerLetters)}
UpperSet == {UpperLetters[i] : i \in 1..Len(UpperLetters)}
AlphaSet == LowerSet \cup UpperSet
AlnumSet == AlphaSet \cup DigitSet
\* \w
WordSet == AlnumSet \cup {"_"}
\* \s, and the characters str.split() and str.strip() take for whitespace
SpaceSet == {" ", "\n", "\t"}

\* ch.lower() and ch.upper()
ToLower == [c \in UpperSet |-> CHOOSE i \in 1..Len(UpperLetters) : UpperLetters[i] = c]
ToUpper == [c \in LowerSet |-> CHOOSE i \in 1..Len(LowerLetters) : LowerLetters[i] = c]
LowerChar(c) == IF c \in UpperSet THEN LowerLetters[ToLower[c]] ELSE c
UpperChar(c) == IF c \in LowerSet THEN UpperLetters[ToUpper[c]] ELSE c

\* s.lower(), s.upper(), s.capitalize()
LowerStr(s) == [i \in 1..Len(s) |-> LowerChar(s[i])]
UpperStr(s) == [i \in 1..Len(s) |-> UpperChar(s[i])]
Capitalize(s) == [i \in 1..Len(s) |-> IF i = 1 THEN UpperChar(s[i]) ELSE LowerChar(s[i])]

\* s.strip(): leading and trailing whitespace removed
Strip(s) ==
    LET inner == {i \in 1..Len(s) : s[i] \notin SpaceSet}
    IN  IF inner = {} THEN <<>>
        ELSE SubSeq(s, CHOOSE i \in inner : \A j \in inner : i <= j,
                       CHOOSE i \in inner : \A j \in inner : j <= i)

\* s.rstrip(chars): trailing characters of the set removed
RStrip(s, chars) ==
    LET inner == {i \in 1..Len(s) : s[i] \notin chars}
    IN  IF inner = {} THEN <<>>
        ELSE SubSeq(s, 1, CHOOSE i \in inner : \A j \in inner : j <= i)

(***************************************************************************)
(* The re module: a pattern is a sequence of atoms, matched left to right  *)
(* with greedy quantifiers and backtracking.  A match is the sequence of   *)
(* positions at which the atoms start, then the position after the match;  *)
(* <<>> is no match.                                                       *)
(***************************************************************************)
\* a literal string; ci: under re.IGNORECASE
Lit(str, ci) == [kind |-> "lit", str |-> str, ci |-> ci]
\* a character class (neg: negated) repeated lo to hi times, greedy
Rep(set, neg, lo, hi) ==
    [kind |-> "class", set |-> set, neg |-> neg, lo |-> lo, hi |-> hi, bounded |-> TRUE]
\* a character class repeated lo times or more, greedy
RepFrom(set, neg, lo) ==
    [kind |-> "class", set |-> set, neg |-> neg, lo |-> lo, hi |-> lo, bounded |-> FALSE]
Plus(set) == RepFrom(set, FALSE, 1)
Star(set) == RepFrom(set, FALSE, 0)
Opt(set) == Rep(set, FALSE, 0, 1)
\* (a|b): the alternatives are tried in order
Alt(strs, ci) == [kind |-> "alt", strs |-> strs, ci |-> ci]
\* \b
WB == [kind |-> "wb"]

InClass(c, a) == (c \in a.set) # a.neg

\* \b at pos: exactly one of the characters before and at pos is a word character
AtBoundary(s, pos) ==
    (pos > 1 /\ s[pos - 1] \in WordSet) # (pos <= Len(s) /\ s[pos] \in WordSet)

\* whether the literal str stands at pos
LitAt(s, pos, str, ci) ==
    /\ pos + Len(str) - 1 <= Len(s)
    /\ \A i \in 1..Len(str) :
          IF ci THEN LowerChar(s[pos + i - 1]) = LowerChar(str[i])
          ELSE s[pos + i - 1] = str[i]

\* how many characters from pos on are in the class of atom a, at most a.hi
\* of them when a is bounded
RunLength(s, pos, a) ==
    LET stops == {i \in pos..Len(s) : ~InClass(s[i], a)} \cup {Len(s) + 1}
        run == (CHOOSE i \in stops : \A j \in stops : i <= j) - pos
    IN  IF a.bounded THEN Min(a.hi, run) ELSE run

RECURSIVE CanMatch(_, _, _, _)
\* whether atoms k.. of the pattern match at pos, by backtracking
CanMatch(atoms, k, s, pos) ==
    IF k > Len(atoms) THEN TRUE
    ELSE LET a == atoms[k]
         IN  CASE a.kind = "wb" ->
                    AtBoundary(s, pos) /\ CanMatch(atoms, k + 1, s, pos)
               [] a.kind = "lit" ->
                    /\ LitAt(s, pos, a.str, a.ci)
                    /\ CanMatch(atoms, k + 1, s, pos + Len(a.str))
               [] a.kind = "alt" ->
                    \E j \in 1..Len(a.strs) :
                        /\ LitAt(s, pos, a.strs[j], a.ci)
                        /\ CanMatch(atoms, k + 1, s, pos + Len(a.strs[j]))
               [] a.kind = "class" ->
                    \E c \in a.lo..RunLength(s, pos, a) :
                        CanMatch(atoms, k + 1, s, pos + c)

RECURSIVE Match(_, _, _, _)
\* the match of atoms k.. at pos, where CanMatch: what the backtracking finds
\* first
Match(atoms, k, s, pos) ==
    IF k > Len(atoms) THEN <<pos>>
    ELSE LET a == atoms[k]
         IN  CASE a.kind = "wb" -> <<pos>> \o Match(atoms, k + 1, s, pos)
               [] a.kind = "lit" -> <<pos>> \o Match(atoms, k + 1, s, pos + Len(a.str))
               [] a.kind = "alt" ->
                    \* the first alternative from which the rest matches
                    LET ok == {j \in 1..Len(a.strs) :
                                  /\ LitAt(s, pos, a.strs[j], a.ci)
                                  /\ CanMatch(atoms, k + 1, s, pos + Len(a.strs[j]))}
                        first == CHOOSE j \in ok : \A i \in ok : j <= i
                    IN  <<pos>> \o Match(atoms, k + 1, s, pos + Len(a.strs[first]))
               [] a.kind = "class" ->
                    \* greedy: the longest run from which the rest matches
                    LET ok == {c \in a.lo..RunLength(s, pos, a) :
                                  CanMatch(atoms, k + 1, s, pos + c)}
                        longest == CHOOSE c \in ok : \A d \in ok : d <= c
                    IN  <<pos>> \o Match(atoms, k + 1, s, pos + longest)

\* re.search(pattern, s) from position from: the match at the leftmost start
Search(atoms, s, from) ==
    LET starts == {p \in from..(Len(s) + 1) : CanMatch(atoms, 1, s, p)}
    IN  IF starts = {} THEN <<>>
        ELSE Match(atoms, 1, s, CHOOSE p \in starts : \A q \in starts : p <= q)

RECURSIVE FindAllFrom(_, _, _)
\* re.finditer(pattern, s): the matches that do not overlap, left to right
\* (no pattern of the program matches the empty string)
FindAllFrom(atoms, s, from) ==
    LET m == Search(atoms, s, from)
    IN  IF m = <<>> THEN <<>>
        ELSE <<m>> \o FindAllFrom(atoms, s, m[Len(m)])

FindAll(atoms, s) == FindAllFrom(atoms, s, 1)

\* m.group(0) and m.group of the atom g
Group0(s, m) == SubSeq(s, m[1], m[Len(m)] - 1)
GroupOf(s, m, g) == SubSeq(s, m[g], m[g + 1] - 1)

(***************************************************************************)
(* The string literals of the document rules.                              *)
(***************************************************************************)
S_until == <<"u", "n", "t", "i", "l">>
S_Friday == <<"F", "r", "i", "d", "a", "y">>
S_Sunday == <<"S", "u", "n", "d", "a", "y">>
S_Society == <<"S", "o", "c", "i", "e", "t", "y">>
S_Duke == <<"D", "u", "k", "e">>
S_Durham == <<"D", "u", "r", "h", "a", "m">>
S_NorthCarolina == <<"N", "o", "r", "t", "h", " ", "C", "a", "r", "o", "l", "i", "n", "a">>
S_http == <<"h", "t", "t", "p">>
S_MorseFor == <<"M", "o", "r", "s", "e", " ", "c", "o", "d", "e", " ", "p", "a", "t", "t", "e", "r", "n", " ", "f", "o", "r">>
S_thereisnotime == <<"t", "h", "e", "r", "e", "i", "s", "n", "o", "t", "i", "m", "e">>
S_DefaultTimer == <<"1", "1", ":", "5", "9", " ", "P", "M">>
S_DefaultEmail == <<"u", "n", "k", "n", "o", "w", "n", "@", "u", "n", "k", "n", "o", "w", "n", ".", "e", "d", "u">>
S_DefaultWeb == <<"h", "t", "t", "p", "s", ":", "/", "/", "e", "x", "a", "m", "p", "l", "e", ".", "c", "o", "m">>
S_DukeUniversity == <<"D", "u", "k", "e", " ", "U", "n", "i", "v", "e", "r", "s", "i", "t", "y">>
S_UnknownLocation == <<"U", "n", "k", "n", "o", "w", "n", " ", "L", "o", "c", "a", "t", "i", "o", "n">>
S_edu == <<".", "e", "d", "u">>

(***************************************************************************)
(* The patterns of the document rules.                                     *)
(***************************************************************************)
\* r"until\s+(Friday|Sunday)\b", re.IGNORECASE; group 1 is atom 3
UNTIL_RE == <<Lit(S_until, TRUE), Plus(SpaceSet), Alt(<<S_Friday, S_Sunday>>, TRUE), WB>>

\* r"\bthere\s+is\s+no\s+time\b"
PHRASE_RE ==
    <<WB, Lit(<<"t", "h", "e", "r", "e">>, FALSE), Plus(SpaceSet),
      Lit(<<"i", "s">>, FALSE), Plus(SpaceSet),
      Lit(<<"n", "o">>, FALSE), Plus(SpaceSet),
      Lit(<<"t", "i", "m", "e">>, FALSE), WB>>

\* r"\b[A-Za-z0-9._%+-]+@[A-Za-z0-9.-]+\.[A-Za-z]{2,}\b"
EMAIL_RE ==
    <<WB, Plus(AlnumSet \cup {".", "_", "%", "+", "-"}), Lit(<<"@">>, FALSE),
      Plus(AlnumSet \cup {".", "-"}), Lit(<<".">>, FALSE), RepFrom(AlphaSet, FALSE, 2), WB>>

\* r"\b([A-Za-z]+)\s+Society\b", re.IGNORECASE; group 1 is atom 2
SOCIETY_RE == <<WB, Plus(AlphaSet), Plus(SpaceSet), Lit(S_Society, TRUE), WB>>

\* r"\b(Duke)\b" and r"\bDuke\b", re.IGNORECASE; group 1 is atom 2
DUKE_RE == <<WB, Lit(S_Duke, TRUE), WB>>

\* r"\b-?\d{1,3}\.\d+\s*,\s*-?\d{1,3}\.\d+\b"
COORD_RE ==
    <<WB, Opt({"-"}), Rep(DigitSet, FALSE, 1, 3), Lit(<<".">>, FALSE), Plus(DigitSet),
      Star(SpaceSet), Lit(<<",">>, FALSE), Star(SpaceSet),
      Opt({"-"}), Rep(DigitSet, FALSE, 1, 3), Lit(<<".">>, FALSE), Plus(DigitSet), WB>>

\* r"\bDurham\b.*\bNorth Carolina\b", re.IGNORECASE; "." is any character but
\* a newline
PLACE_RE ==
    <<WB, Lit(S_Durham, TRUE), WB, RepFrom({"\n"}, TRUE, 0),
      WB, Lit(S_NorthCarolina, TRUE), WB>>

\* r"https?://[^\s]+"
URL_RE ==
    <<Lit(S_http, FALSE), Opt({"s"}), Lit(<<":", "/", "/">>, FALSE),
      RepFrom(SpaceSet, TRUE, 1)>>

\* r"\b[a-z]{8,}\b", and the same under re.IGNORECASE
TOKEN_RE == <<WB, RepFrom(LowerSet, FALSE, 8), WB>>
TOKEN_RE_IGNORECASE == <<WB, RepFrom(AlphaSet, FALSE, 8), WB>>

\* r"Morse code pattern for\s*[\"'\u201c\u201d]?([A-Za-z0-9]+)", re.IGNORECASE;
\* group 1 is atom 4.  The texts of the model are ASCII, so the two curly
\* quotes of the class (and the \u200b that rstrip removes from a link)
\* never occur in them.
MORSE_WORD_RE ==
    <<Lit(S_MorseFor, TRUE), Star(SpaceSet), Opt({"\"", "'"}), Plus(AlnumSet)>>

(***************************************************************************)
(* dict operations.                                                        *)
(***************************************************************************)
EmptyDict == [k \in {} |-> <<>>]
Put(d, key, value) == [k \in DOMAIN d \cup {key} |-> IF k = key THEN value ELSE d[k]]
SetDefault(d, key, value) == IF key \in DOMAIN d THEN d ELSE Put(d, key, value)
Get(d, key, default) == IF key \in DOMAIN d THEN d[key] ELSE default

(***************************************************************************)
(* String order and joining.                                               *)
(***************************************************************************)
\* ord(c) for the letters and digits
Ord(c) ==
    IF c \in UpperSet THEN 64 + CHOOSE i \in 1..Len(UpperLetters) : UpperLetters[i] = c
    ELSE IF c \in LowerSet THEN 96 + CHOOSE i \in 1..Len(LowerLetters) : LowerLetters[i] = c
    ELSE 48 + DigitVal(c)

\* a < b for two strings
StrLess(a, b) ==
    \E i \in 1..(Len(b)) :
        /\ \A j \in 1..(i - 1) : j <= Len(a) /\ a[j] = b[j]
        /\ i > Len(a) \/ Ord(a[i]) < Ord(b[i])

RECURSIVE JoinSorted(_, _)
\* sep.join(sorted(strs)) for a set of strings
JoinSorted(strs, sep) ==
    IF strs = {} THEN <<>>
    ELSE LET first == CHOOSE x \in strs : \A y \in strs \ {x} : StrLess(x, y)
         IN  IF strs = {first} THEN first
             ELSE first \o sep \o JoinSorted(strs \ {first}, sep)

(***************************************************************************)
(* extract_validated_fields                                                *)
(***************************************************************************)
\* re.findall(r"\b[a-z]{8,}\b", text.lower())
TokenCandidates(text) ==
    LET low == LowerStr(text)
        ms == FindAll(TOKEN_RE, low)
    IN  [k \in 1..Len(ms) |-> Group0(low, ms[k])]

\* sorted(token_counts.items(), key=lambda kv: (-kv[1], -len(kv[0]), kv[0]))[0][0]
TopToken(toks) ==
    LET distinct == {toks[k] : k \in 1..Len(toks)}
        count(t) == Cardinality({k \in 1..Len(toks) : toks[k] = t})
        before(t, u) ==
            \/ count(t) > count(u)
            \/ count(t) = count(u) /\ Len(t) > Len(u)
            \/ count(t) = count(u) /\ Len(t) = Len(u) /\ StrLess(t, u)
    IN  CHOOSE t \in distinct : \A u \in distinct \ {t} : before(t, u)

WithBoxLink(text, f) ==
    LET m == Search(URL_RE, text, 1)
    IN  IF m = <<>> THEN f
        ELSE Put(f, "BOX_LINK",
                 RStrip(Strip(Group0(text, m)), {".", ",", ";", ")", "]", "}"}))

WithEmail(text, f) ==
    LET m == Search(EMAIL_RE, text, 1)
    IN  IF m = <<>> THEN f ELSE Put(f, "EMAIL", Group0(text, m))

WithPassword(text, f) ==
    LET toks == TokenCandidates(text)
        f1 == IF toks = <<>> THEN f ELSE Put(f, "PASSWORD", TopToken(toks))
        m == Search(TOKEN_RE_IGNORECASE, text, 1)
    IN  IF m = <<>> THEN f1 ELSE SetDefault(f1, "PASSWORD", LowerStr(Group0(text, m)))

WithDeadline(text, f) ==
    LET ms == FindAll(UNTIL_RE, text)
        days == {Capitalize(GroupOf(text, ms[k], 3)) : k \in 1..Len(ms)}
    IN  IF ms = <<>> THEN f
        ELSE Put(f, "DEADLINE_DAY_MENTIONED", JoinSorted(days, <<",", " ">>))

WithMorseWord(text, f) ==
    LET m == Search(MORSE_WORD_RE, text, 1)
    IN  IF m = <<>> THEN f
        ELSE Put(f, "MORSE_DECODED_WORD", UpperStr(GroupOf(text, m, 4)))

\* re.search(r"\bDurham\b.*\bNorth Carolina\b", text, flags=re.IGNORECASE)
PlaceMatch(text) == Search(PLACE_RE, text, 1)

WithLocation(text, f) ==
    LET coord == Search(COORD_RE, text, 1)
        place == PlaceMatch(text)
    IN  IF coord # <<>> THEN Put(f, "LOCATION", Group0(text, coord))
        ELSE IF place # <<>> THEN Put(f, "LOCATION", Group0(text, place))
        ELSE f

extract_validated_fields(text) ==
    WithLocation(text,
        WithMorseWord(text,
            WithDeadline(text,
                WithPassword(text,
                    WithEmail(text,
                        WithBoxLink(text, EmptyDict))))))

(***************************************************************************)
(* The derivations.                                                        *)
(***************************************************************************)
\* a mutation of LastMatch: the first match is taken
FirstMatch(ms) == ms[1]

\* matches[-1]
LastMatch(ms) == ms[Len(ms)]

derive_timer(text) ==
    LET matches == FindAll(UNTIL_RE, text)
    IN  IF matches # <<>>
        THEN Capitalize(GroupOf(text, LastMatch(matches), 3)) \o <<" ">> \o S_DefaultTimer
        ELSE S_DefaultTimer

\* re.sub(r"\s+", " ", s): every run of whitespace replaced by one space
CollapseSpaces(s) ==
    LET marked == [i \in 1..Len(s) |->
                      IF s[i] \notin SpaceSet THEN s[i]
                      ELSE IF i > 1 /\ s[i - 1] \in SpaceSet THEN "" ELSE " "]
        kept(c) == c # ""
    IN  SelectSeq(marked, kept)

\* compact = re.sub(r"\s+", " ", text.lower())
Compact(text) == CollapseSpaces(LowerStr(text))

\* a mutation of PhraseMatch: the phrase is searched without the \b anchors
PhraseMatchUnanchored(compact) == Search(SubSeq(PHRASE_RE, 2, Len(PHRASE_RE) - 1), compact, 1)

\* re.search(r"\bthere\s+is\s+no\s+time\b", compact)
PhraseMatch(compact) == Search(PHRASE_RE, compact, 1)

derive_password(text, flds) ==
    IF PhraseMatch(Compact(text)) # <<>> THEN S_thereisnotime
    ELSE Get(flds, "PASSWORD", <<>>)

\* a mutation of SocietyMatch: "Society" is matched case-sensitively
SocietyMatchCaseSensitive(text) ==
    Search(<<WB, Plus(AlphaSet), Plus(SpaceSet), Lit(S_Society, FALSE), WB>>, text, 1)

\* re.search(r"\b([A-Za-z]+)\s+Society\b", text, flags=re.IGNORECASE)
SocietyMatch(text) == Search(SOCIETY_RE, text, 1)

derive_email(text) ==
    LET explicit == Search(EMAIL_RE, text, 1)
        society_match == SocietyMatch(text)
        school_match == Search(DUKE_RE, text, 1)
    IN  IF explicit # <<>> THEN Group0(text, explicit)
        ELSE IF society_match # <<>> /\ school_match # <<>>
        THEN LowerStr(GroupOf(text, society_match, 2)) \o <<"@">>
             \o LowerStr(GroupOf(text, school_match, 2)) \o S_edu
        ELSE S_DefaultEmail

derive_location(text) ==
    LET coord == Search(COORD_RE, text, 1)
    IN  IF coord # <<>> THEN Group0(text, coord)
        ELSE IF Search(DUKE_RE, text, 1) # <<>> THEN S_DukeUniversity
        ELSE S_UnknownLocation

derive_web(flds) ==
    IF "BOX_LINK" \in DOMAIN flds /\ flds["BOX_LINK"] # <<>> THEN flds["BOX_LINK"]
    ELSE S_DefaultWeb

(***************************************************************************)
(* The Morse codec.                                                        *)
(***************************************************************************)
MORSE_TABLE ==
    <<<<<<".", "-">>, "A">>,
      <<<<"-", ".", ".", ".">>, "B">>,
      <<<<"-", ".", "-", ".">>, "C">>,
      <<<<"-", ".", ".">>, "D">>,
      <<<<".">>, "E">>,
      <<<<".", ".", "-", ".">>, "F">>,
      <<<<"-", "-", ".">>, "G">>,
      <<<<".", ".", ".", ".">>, "H">>,
      <<<<".", ".">>, "I">>,
      <<<<".", "-", "-", "-">>, "J">>,
      <<<<"-", ".", "-">>, "K">>,
      <<<<".", "-", ".", ".">>, "L">>,
      <<<<"-", "-">>, "M">>,
      <<<<"-", ".">>, "N">>,
      <<<<"-", "-", "-">>, "O">>,
      <<<<".", "-", "-", ".">>, "P">>,
      <<<<"-", "-", ".", "-">>, "Q">>,
      <<<<".", "-", ".">>, "R">>,
      <<<<".", ".", ".">>, "S">>,
      <<<<"-">>, "T">>,
      <<<<".", ".", "-">>, "U">>,
      <<<<".", ".", ".", "-">>, "V">>,
      <<<<".", "-", "-">>, "W">>,
      <<<<"-", ".", ".", "-">>, "X">>,
      <<<<"-", ".", "-", "-">>, "Y">>,
      <<<<"-", "-", ".", ".">>, "Z">>,
      <<<<"-", "-", "-", "-", "-">>, "0">>,
      <<<<".", "-", "-", "-", "-">>, "1">>,
      <<<<".", ".", "-", "-", "-">>, "2">>,
      <<<<".", ".", ".", "-", "-">>, "3">>,
      <<<<".", ".", ".", ".", "-">>, "4">>,
      <<<<".", ".", ".", ".", ".">>, "5">>,
      <<<<"-", ".", ".", ".", ".">>, "6">>,
      <<<<"-", "-", ".", ".", ".">>, "7">>,
      <<<<"-", "-", "-", ".", ".">>, "8">>,
      <<<<"-", "-", "-", "-", ".">>, "9">>>>

\* MORSE_TABLE.get(symbol, "?")
MorseGet(symbol) ==
    LET hits == {i \in 1..Len(MORSE_TABLE) : MORSE_TABLE[i][1] = symbol}
    IN  IF hits = {} THEN "?" ELSE MORSE_TABLE[CHOOSE i \in hits : TRUE][2]

\* inv.get(ch), inv = {v: k for k, v in MORSE_TABLE.items()}; <<>> is None
InvGet(ch) ==
    LET hits == {i \in 1..Len(MORSE_TABLE) : MORSE_TABLE[i][2] = ch}
    IN  IF hits = {} THEN <<>> ELSE MORSE_TABLE[CHOOSE i \in hits : TRUE][1]

RECURSIVE Join(_, _)
\* sep.join(parts)
Join(parts, sep) ==
    IF parts = <<>> THEN <<>>
    ELSE IF Len(parts) = 1 THEN parts[1]
    ELSE parts[1] \o sep \o Join(Tail(parts), sep)

\* the pieces of s between the characters of seps, the empty ones included
Pieces(s, seps) ==
    LET cuts == {i \in 1..Len(s) : s[i] \in seps} \cup {0, Len(s) + 1}
        nth(k) == CHOOSE i \in cuts : Cardinality({j \in cuts : j < i}) = k - 1
    IN  [k \in 1..(Cardinality(cuts) - 1) |-> SubSeq(s, nth(k) + 1, nth(k + 1) - 1)]

\* s.split(sep) for a one-character sep
SplitOn(s, sep) == Pieces(s, {sep})

\* s.split(): the pieces between runs of whitespace, none of them empty
SplitWhitespace(s) ==
    LET nonempty(piece) == piece # <<>>
    IN  SelectSeq(Pieces(s, SpaceSet), nonempty)

\* a mutation of MorsePart: a space is dropped like any unmapped character
MorsePartNoSeparator(ch) == IF InvGet(ch) # <<>> THEN <<InvGet(ch)>> ELSE <<>>

\* what one character of text.upper() appends to parts
MorsePart(ch) ==
    IF ch = " " THEN << <<"/">> >>
    ELSE IF InvGet(ch) # <<>> THEN <<InvGet(ch)>>
    ELSE <<>>

RECURSIVE MorseParts(_)
MorseParts(up) ==
    IF up = <<>> THEN <<>> ELSE MorsePart(up[1]) \o MorseParts(Tail(up))

text_to_morse(text) == Join(MorseParts(UpperStr(text)), <<" ">>)

\* "".join(chars) for the symbols of one word
DecodeWord(wordstr) ==
    LET symbols == SplitWhitespace(Strip(wordstr))
    IN  [k \in 1..Len(symbols) |-> MorseGet(symbols[k])]

morse_to_text(morsestr) ==
    LET parts == SplitOn(morsestr, "/")
        words == [k \in 1..Len(parts) |-> DecodeWord(parts[k])]
    IN  Strip(Join(words, <<" ">>))

(***************************************************************************)
(* decode_phone_from_peaks                                                 *)
(***************************************************************************)
MAX_PEAKS == 100

\* int(sample_rate * 0.1)
Window(rate) == rate \div 10

RECURSIVE MaxAbs(_)
\* max(abs(s) for s in w), w not empty
MaxAbs(w) ==
    IF Len(w) = 1 THEN Abs(w[1])
    ELSE Max(Abs(w[1]), MaxAbs(Tail(w)))

\* the values of range(0, stop, step), step > 0, in order
RangeCount(stop, step) == IF stop <= 0 THEN 0 ELSE (stop + step - 1) \div step

\* peaks = [max(abs(s) for s in samples[i:i+window])
\*          for i in range(0, len(samples) - window, window)]
Peaks(smp, window) ==
    [k \in 1..RangeCount(Len(smp) - window, window) |->
        MaxAbs(PySlice(smp, (k - 1) * window, (k - 1) * window + window))]

\* digits = "".join(str(p % 10) for p in peaks[:100])
Digits(pk) ==
    [k \in 1..Min(MAX_PEAKS, Len(pk)) |-> DigitStr(pk[k] % 10)]

disallowed_area ==
    { <<"8", "0", "0">>, <<"8", "3", "3">>, <<"8", "4", "4">>, <<"8", "5", "5">>,
      <<"8", "6", "6">>, <<"8", "7", "7">>, <<"8", "8", "8">>, <<"8", "9", "9">> }

\* a mutation of is_valid_nanp: the exchange code is not tested for N11
is_valid_nanp_area_only_n11(s) ==
    IF Len(s) # 10 \/ ~IsDigitStr(s) THEN FALSE
    ELSE LET area == PySlice(s, 0, 3)
             exchange == PySlice(s, 3, 6)
         IN  IF area \in disallowed_area THEN FALSE
             ELSE IF area[1] \in {"0", "1"} \/ exchange[1] \in {"0", "1"} THEN FALSE
             ELSE IF PySlice(area, 1, 3) = <<"1", "1">> THEN FALSE
             ELSE TRUE

is_valid_nanp(s) ==
    IF Len(s) # 10 \/ ~IsDigitStr(s) THEN FALSE
    ELSE LET area == PySlice(s, 0, 3)
             exchange == PySlice(s, 3, 6)
         IN  IF area \in disallowed_area THEN FALSE
             ELSE IF area[1] \in {"0", "1"} \/ exchange[1] \in {"0", "1"} THEN FALSE
             ELSE IF PySlice(area, 1, 3) = <<"1", "1">>
                     \/ PySlice(exchange, 1, 3) = <<"1", "1">> THEN FALSE
             ELSE TRUE

\* the offsets i of range(0, len(digits) - 9) whose window digits[i:i+10] is valid
ValidOffsets(dg) ==
    {i \in 0..(Len(dg) - 10) : is_valid_nanp(PySlice(dg, i, i + 10))}

\* candidates: (i, digits[i:i+10]) appended for increasing i when valid
Candidates(dg) ==
    LET offs == ValidOffsets(dg)
        nth(k) == CHOOSE i \in offs : Cardinality({j \in offs : j < i}) = k - 1
    IN  [k \in 1..Cardinality(offs) |-> <<nth(k), PySlice(dg, nth(k), nth(k) + 10)>>]

\* key=lambda item: (int(item[1][:3]), item[0])
SortKey(item) == <<ParseInt(PySlice(item[2], 0, 3)), item[1]>>

\* a mutation of KeyLess: the area code is left out of the key
KeyLessByOffset(a, b) == SortKey(a)[2] < SortKey(b)[2]

\* tuple comparison of two sort keys
KeyLess(a, b) ==
    \/ SortKey(a)[1] < SortKey(b)[1]
    \/ SortKey(a)[1] = SortKey(b)[1] /\ SortKey(a)[2] < SortKey(b)[2]

\* sorted(candidates, key=...): a stable sort, so the element at index i comes
\* after every element with a smaller key and every earlier one with an equal key
Sorted(s) ==
    LET before(j, i) == KeyLess(s[j], s[i]) \/ (~KeyLess(s[i], s[j]) /\ j < i)
        rank(i) == 1 + Cardinality({j \in 1..Len(s) : before(j, i)})
    IN  [k \in 1..Len(s) |-> s[CHOOSE i \in 1..Len(s) : rank(i) = k]]

\* f"{p[:3]}-{p[3:6]}-{p[6:10]}"
FormatPhone(p) ==
    PySlice(p, 0, 3) \o <<"-">> \o PySlice(p, 3, 6) \o <<"-">> \o PySlice(p, 6, 10)

\* the string decode_phone_from_peaks returns for a Digit Stream
PhoneOf(dg) ==
    LET cands == Candidates(dg)
    IN  IF cands # <<>> THEN FormatPhone(Sorted(cands)[1][2])
        ELSE FormatPhone(PySlice(dg, 0, 10))

(***************************************************************************)
(* The waveforms of the model: a sample pattern repeated, then at most two  *)
(* more samples.                                                           *)
(***************************************************************************)
SampleValues == {-21, 32, 18}
SampleRates == {5, 10, 20}

SeqsUpTo(S, k) == UNION {[1..m -> S] : m \in 0..k}

Tile(pattern, count) == [i \in 1..count |-> pattern[((i - 1) % Len(pattern)) + 1]]

ShortWaveforms ==
    { Tile(p, c) \o t : p \in SeqsUpTo(SampleValues, PatLen) \ {<<>>},
                        c \in 0..MaxShort,
                        t \in SeqsUpTo(SampleValues, 2) }

LongWaveforms ==
    { Tile(p, c) : p \in SeqsUpTo(SampleValues, 2) \ {<<>>},
                   c \in (MAX_PEAKS - 1)..(MAX_PEAKS + ExtraLong) }

Waveforms == ShortWaveforms \cup LongWaveforms

(***************************************************************************)
(* The texts of the model: fragments put together.                         *)
(***************************************************************************)
RECURSIVE Flatten(_)
Flatten(parts) == IF parts = <<>> THEN <<>> ELSE parts[1] \o Flatten(Tail(parts))

Texts(frags, most) == {Flatten(parts) : parts \in SeqsUpTo(frags, most)}

PasswordFragments ==
    { <<"t", "h", "e", "r", "e", " ", "i", "s", " ", "n", "o">>,
      <<"T", "h", "e", "r", "e", "\n", " ", "I", "S", " ", " ", "n", "o", "\t">>,
      <<" ">>, <<"t", "i", "m", "e">>, <<" ", "t", "i", "m", "e">>,
      <<"t", "i", "m", "e", "l", "i", "n", "e">>, <<"x">>, <<"\n">> }

TimerFragments ==
    { <<"u", "n", "t", "i", "l", " ">>,
      <<"u", "n", "t", "i", "l", " ", "F", "r", "i", "d", "a", "y", " ">>,
      <<"U", "n", "t", "i", "l", " ", " ", "f", "r", "i", "d", "a", "y", "\n">>,
      <<"U", "N", "T", "I", "L", "\n", "\t", "S", "U", "N", "D", "A", "Y", ".">>,
      <<"F", "r", "i", "d", "a", "y">>,
      <<"s", "u", "n", "d", "a", "y", " ">>, <<"s">>, <<"x">> }

EmailFragments ==
    { <<"a", "@", "b", ".", "c", "o">>,
      <<"x", "@", "d", "u", "k", "e", ".", "e", "d", "u", ".">>,
      <<"@", "x", ".">>, <<"P", "u", "z", "z", "l", "e">>,
      <<" ", "S", "o", "c", "i", "e", "t", "y", " ">>,
      <<" ", "S", "O", "C", "I", "E", "T", "Y", "\n">>,
      <<"D", "u", "k", "e">>, <<"s">> }

LocationFragments ==
    { <<"D", "u", "r", "h", "a", "m">>,
      <<" ", "N", "o", "r", "t", "h", " ", "C", "a", "r", "o", "l", "i", "n", "a">>,
      <<",", " ", "n", "o", "r", "t", "h", " ", "c", "a", "r", "o", "l", "i", "n", "a">>,
      <<"\n">>, <<"s">>, <<" ">>,
      <<"3", "6", ".", "0", ",", " ", "-", "7", "8", ".", "9">>,
      <<"1", ".", "5", ",", "2", ".", "2", "5">> }

MorseAlphabet ==
    { "S", "O", "E", "7", " " }

S_passwords == <<"p", "a", "s", "s", "w", "o", "r", "d", "s">>

(***************************************************************************)
(* What a specification leaves alone.                                      *)
(***************************************************************************)
NoWaveform == audio_exists = FALSE /\ sample_rate = 0 /\ samples = <<>>
NoPhone == peaks = <<>> /\ digits = <<>> /\ candidates = <<>> /\ phone = <<>>
NoNanp == n = <<>> /\ valid = FALSE
NoDocument == pdf = "missing" /\ document = <<>>
NoText == clue_text = <<>> /\ fields = EmptyDict
NoMorse == word = <<>> /\ morse = <<>> /\ roundtrip = <<>>
NoAnswers ==
    timer = <<>> /\ location = <<>> /\ email = <<>> /\ web = <<>> /\ password = <<>>

(***************************************************************************)
(* Specification of decode_phone_from_peaks over the waveforms.            *)
(***************************************************************************)
InitPhone ==
    /\ pc = "start"
    /\ audio_exists = TRUE
    /\ sample_rate \in SampleRates
    /\ samples \in Waveforms
    /\ NoPhone /\ NoNanp /\ NoDocument /\ NoText /\ NoMorse /\ NoAnswers

\* range(0, len(samples) - window, window) with window = 0 raises ValueError
DecodePhoneFails ==
    /\ pc = "start"
    /\ Window(sample_rate) = 0
    /\ pc' = "failed"
    /\ UNCHANGED <<waveVars, phoneVars, nanpVars, docVars, clue_text, fields, morseVars,
                   answerVars>>

DecodePhone ==
    /\ pc = "start"
    /\ Window(sample_rate) > 0
    /\ peaks' = Peaks(samples, Window(sample_rate))
    /\ digits' = Digits(peaks')
    /\ candidates' = Candidates(digits')
    /\ phone' = PhoneOf(digits')
    /\ pc' = "done"
    /\ UNCHANGED <<waveVars, nanpVars, docVars, clue_text, fields, morseVars, answerVars>>

NextPhone == DecodePhone \/ DecodePhoneFails

SpecPhone == InitPhone /\ [][NextPhone]_vars

(***************************************************************************)
(* Specification of is_valid_nanp over area codes, exchange codes and line *)
(* numbers.                                                                *)
(***************************************************************************)
NanpInputs ==
    LET AreaInputs == [1..3 -> DigitSet \cup {"x"}]
        ExchangeInputs ==
            {<<a>> \o b : a \in {"0", "1", "2", "5", "9"},
                          b \in {<<"1", "1">>, <<"1", "0">>, <<"0", "1">>, <<"5", "5">>}}
        LineInputs ==
            {<<"1", "2", "3", "4">>, <<"1", "2", "3">>, <<"1", "2", "3", "4", "5">>,
             <<"1", "2", "-", "4">>}
    IN  {a \o e \o l : a \in AreaInputs, e \in ExchangeInputs, l \in LineInputs}

InitNanp ==
    /\ pc = "start"
    /\ n \in NanpInputs
    /\ valid = FALSE
    /\ NoWaveform /\ NoPhone /\ NoDocument /\ NoText /\ NoMorse /\ NoAnswers

CheckNanp ==
    /\ pc = "start"
    /\ valid' = is_valid_nanp(n)
    /\ pc' = "done"
    /\ UNCHANGED <<waveVars, phoneVars, n, docVars, clue_text, fields, morseVars, answerVars>>

SpecNanp == InitNanp /\ [][CheckNanp]_vars

(***************************************************************************)
(* Specification of the Morse round trip, text_to_morse then morse_to_text.*)
(***************************************************************************)
InitMorse ==
    /\ pc = "start"
    /\ word \in SeqsUpTo(MorseAlphabet, MaxWord)
    /\ morse = <<>> /\ roundtrip = <<>>
    /\ NoWaveform /\ NoPhone /\ NoNanp /\ NoDocument /\ NoText /\ NoAnswers

TextToMorse ==
    /\ pc = "start"
    /\ morse' = text_to_morse(word)
    /\ pc' = "encoded"
    /\ UNCHANGED <<waveVars, phoneVars, nanpVars, docVars, clue_text, fields, word,
                   roundtrip, answerVars>>

MorseToText ==
    /\ pc = "encoded"
    /\ roundtrip' = morse_to_text(morse)
    /\ pc' = "done"
    /\ UNCHANGED <<waveVars, phoneVars, nanpVars, docVars, clue_text, fields, word,
                   morse, answerVars>>

NextMorse == TextToMorse \/ MorseToText

SpecMorse == InitMorse /\ [][NextMorse]_vars

(***************************************************************************)
(* Specifications of the document rules, each over its own texts.          *)
(***************************************************************************)
InitText(texts, mappings) ==
    /\ pc = "start"
    /\ clue_text \in texts
    /\ fields \in mappings
    /\ NoWaveform /\ NoPhone /\ NoNanp /\ NoDocument /\ NoMorse /\ NoAnswers

DerivePassword ==
    /\ pc = "start"
    /\ password' = derive_password(clue_text, fields)
    /\ pc' = "done"
    /\ UNCHANGED <<waveVars, phoneVars, nanpVars, docVars, clue_text, fields, morseVars,
                   timer, location, email, web>>

InitPassword ==
    InitText(Texts(PasswordFragments, MaxFrags),
             {EmptyDict, Put(EmptyDict, "PASSWORD", S_passwords)})

SpecPassword == InitPassword /\ [][DerivePassword]_vars

DeriveTimer ==
    /\ pc = "start"
    /\ timer' = derive_timer(clue_text)
    /\ pc' = "done"
    /\ UNCHANGED <<waveVars, phoneVars, nanpVars, docVars, clue_text, fields, morseVars,
                   location, email, web, password>>

InitTimer == InitText(Texts(TimerFragments, MaxFrags), {EmptyDict})

SpecTimer == InitTimer /\ [][DeriveTimer]_vars

DeriveEmail ==
    /\ pc = "start"
    /\ email' = derive_email(clue_text)
    /\ pc' = "done"
    /\ UNCHANGED <<waveVars, phoneVars, nanpVars, docVars, clue_text, fields, morseVars,
                   timer, location, web, password>>

InitEmail == InitText(Texts(EmailFragments, MaxFrags), {EmptyDict})

SpecEmail == InitEmail /\ [][DeriveEmail]_vars

ExtractFields ==
    /\ pc = "start"
    /\ fields' = extract_validated_fields(clue_text)
    /\ pc' = "done"
    /\ UNCHANGED <<waveVars, phoneVars, nanpVars, docVars, clue_text, morseVars, answerVars>>

InitFields == InitText(Texts(LocationFragments, MaxFrags), {EmptyDict})

SpecFields == InitFields /\ [][ExtractFields]_vars

(***************************************************************************)
(* Specification of main: one run over the two artifacts.                  *)
(***************************************************************************)
DocFragments ==
    { <<"D", "u", "k", "e", " ", "u", "n", "t", "i", "l", " ", "F", "r", "i", "d", "a", "y", " ">>,
      <<"h", "t", "t", "p", ":", "/", "/", "a", ".", "i", "o", "/", "b", ".", " ">>,
      <<"T", "h", "e", "r", "e", " ", "i", "s", "\n", "n", "o", " ", "t", "i", "m", "e", " ">>,
      <<"M", "o", "r", "s", "e", " ", "c", "o", "d", "e", " ", "p", "a", "t", "t", "e", "r", "n", " ", "f", "o", "r", " ", "'", "s", "o", "'", " ">>,
      <<"x", " ">> }

MainRates == {5, 10}
MainWaveforms == {<<>>, Tile(<<-21>>, MaxShort), Tile(<<32, 18, 32>>, MaxShort)}

\* extract_pdf_text: "" unless the document exists and pdftotext succeeds
extract_pdf_text(status, printed) == IF status = "ok" THEN printed ELSE <<>>

\* a mutation of NoFields: the run never returns for want of fields
NoFieldsNever(flds) == FALSE

\* not fields
NoFields(flds) == DOMAIN flds = {}

InitMain ==
    /\ pc = "start"
    /\ audio_exists \in BOOLEAN
    /\ IF audio_exists
       THEN sample_rate \in MainRates /\ samples \in MainWaveforms
       ELSE sample_rate = 0 /\ samples = <<>>
    /\ pdf \in {"missing", "no_pdftotext", "pdftotext_failed", "ok"}
    /\ IF pdf = "ok"
       THEN document \in Texts(DocFragments, MaxDocFrags)
       ELSE document = <<>>
    /\ NoPhone /\ NoNanp /\ NoText /\ NoMorse /\ NoAnswers

\* if not AUDIO_FILE.exists(): return
MainAudioMissing ==
    /\ pc = "start"
    /\ ~audio_exists
    /\ pc' = "returned"
    /\ UNCHANGED <<waveVars, phoneVars, nanpVars, docVars, clue_text, fields,
                   morseVars, answerVars>>

\* read_wav_info(AUDIO_FILE), the sample rate of the model's waveforms not 0
MainAudioInfo ==
    /\ pc = "start"
    /\ audio_exists
    /\ pc' = "audio_info"
    /\ UNCHANGED <<waveVars, phoneVars, nanpVars, docVars, clue_text, fields,
                   morseVars, answerVars>>

\* clue_text and fields; if not fields: return
MainExtract ==
    /\ pc = "audio_info"
    /\ clue_text' = extract_pdf_text(pdf, document)
    /\ fields' = extract_validated_fields(clue_text')
    /\ pc' = IF NoFields(fields') THEN "returned" ELSE "validated"
    /\ UNCHANGED <<waveVars, phoneVars, nanpVars, docVars, morseVars, answerVars>>

\* the Morse verification of MORSE_DECODED_WORD, when the key is present
MainMorse ==
    /\ pc = "validated"
    /\ IF "MORSE_DECODED_WORD" \in DOMAIN fields
       THEN /\ word' = fields["MORSE_DECODED_WORD"]
            /\ morse' = text_to_morse(word')
            /\ roundtrip' = morse_to_text(morse')
       ELSE UNCHANGED morseVars
    /\ pc' = "final"
    /\ UNCHANGED <<waveVars, phoneVars, nanpVars, docVars, clue_text, fields, answerVars>>

\* the final output: the six answers
MainFinal ==
    /\ pc = "final"
    /\ Window(sample_rate) > 0
    /\ timer' = derive_timer(clue_text)
    /\ peaks' = Peaks(samples, Window(sample_rate))
    /\ digits' = Digits(peaks')
    /\ candidates' = Candidates(digits')
    /\ phone' = PhoneOf(digits')
    /\ email' = derive_email(clue_text)
    /\ web' = derive_web(fields)
    /\ password' = derive_password(clue_text, fields)
    /\ location' = derive_location(clue_text)
    /\ pc' = "done"
    /\ UNCHANGED <<waveVars, nanpVars, docVars, clue_text, fields, morseVars>>

\* decode_phone_from_peaks raises ValueError: nothing is output
MainFinalFails ==
    /\ pc = "final"
    /\ Window(sample_rate) = 0
    /\ pc' = "failed"
    /\ UNCHANGED <<waveVars, phoneVars, nanpVars, docVars, clue_text, fields,
                   morseVars, answerVars>>

NextMain ==
    \/ MainAudioMissing
    \/ MainAudioInfo
    \/ MainExtract
    \/ MainMorse
    \/ MainFinal
    \/ MainFinalFails

SpecMain == InitMain /\ [][NextMain]_vars

(***************************************************************************)
(* Properties of decode_phone_from_peaks.                                  *)
(***************************************************************************)
\* the 10-digit window of the Digit Stream at offset i (0-based)
WindowAt(i) == [k \in 1..10 |-> digits[i + k]]

\* the area code of a 10-digit window, read as an integer
AreaOf(w) == 100 * DigitVal(w[1]) + 10 * DigitVal(w[2]) + DigitVal(w[3])

\* NNN-NNN-NNNN for a 10-digit window
Hyphenated(w) ==
    <<w[1], w[2], w[3], "-", w[4], w[5], w[6], "-", w[7], w[8], w[9], w[10]>>

IsPhoneFormat(p) ==
    /\ Len(p) = 12
    /\ p[4] = "-" /\ p[8] = "-"
    /\ \A k \in (1..12) \ {4, 8} : p[k] \in DigitSet

\* the largest absolute sample value of the k-th window of w samples
WindowPeak(k, w) ==
    CHOOSE m \in {Abs(samples[j]) : j \in ((k - 1) * w + 1)..(k * w)} :
        \A j \in ((k - 1) * w + 1)..(k * w) : Abs(samples[j]) <= m

\* C1: for any waveform with sample rate > 0 and any number of samples,
\* decode_phone_from_peaks never fails and returns a string of the form
\* NNN-NNN-NNNN; when no 10-digit window is NANP-valid the result is the first
\* 10 digits of the Digit Stream in that format.
C1_AlwaysFormatted ==
    (sample_rate > 0 /\ pc # "start") =>
        /\ pc = "done"
        /\ IsPhoneFormat(phone)
        /\ ValidOffsets(digits) = {} =>
              Len(digits) >= 10 /\ phone = Hyphenated(WindowAt(0))

\* C2: the Digit Stream has length min(100, W), W the number of complete
\* non-overlapping windows that fit in the samples, and every entry is the
\* decimal digit of that window's largest absolute sample value mod 10.
C2_DigitStream ==
    pc = "done" =>
        LET w == Window(sample_rate)
        IN  /\ Len(digits) = Min(100, Len(samples) \div w)
            /\ \A k \in 1..Len(digits) : digits[k] = DigitStr(WindowPeak(k, w) % 10)

\* C3: whenever at least one 10-digit window of the Digit Stream is NANP-valid,
\* the returned number is a valid window whose area code is less than or equal
\* to that of every other valid window, and among the valid windows with that
\* area code it is the one with the smallest offset.
C3_MinimalAreaEarliest ==
    (pc = "done" /\ ValidOffsets(digits) # {}) =>
        \E i \in ValidOffsets(digits) :
            /\ phone = Hyphenated(WindowAt(i))
            /\ \A j \in ValidOffsets(digits) :
                  /\ AreaOf(WindowAt(i)) <= AreaOf(WindowAt(j))
                  /\ AreaOf(WindowAt(j)) = AreaOf(WindowAt(i)) => i <= j

\* C3's case: the first valid window is not the one returned, and the one
\* returned shares its area code with a later, different valid window
C3_Witness ==
    /\ pc = "done"
    /\ \E f, i, j \in ValidOffsets(digits) :
          /\ f < i /\ i < j
          /\ AreaOf(WindowAt(i)) < AreaOf(WindowAt(f))
          /\ AreaOf(WindowAt(i)) = AreaOf(WindowAt(j))
          /\ WindowAt(i) # WindowAt(j)
          /\ phone = Hyphenated(WindowAt(i))
          /\ phone # Hyphenated(WindowAt(j))

(***************************************************************************)
(* Properties of is_valid_nanp.                                            *)
(***************************************************************************)
TwoToNine == {"2", "3", "4", "5", "6", "7", "8", "9"}
TollFreeAreas == {800, 833, 844, 855, 866, 877, 888, 899}

\* the North American Numbering Plan shape, as the documentation words it
NanpShape(s) ==
    /\ Len(s) = 10
    /\ \A i \in 1..10 : s[i] \in DigitSet
    /\ s[1] \in TwoToNine
    /\ AreaOf(s) \notin TollFreeAreas
    /\ ~(s[2] = "1" /\ s[3] = "1")
    /\ s[4] \in TwoToNine
    /\ ~(s[5] = "1" /\ s[6] = "1")

OnlySingleSpaces(s) ==
    /\ \A i \in 1..Len(s) : s[i] \in UpperSet \cup DigitSet \cup {" "}
    /\ \A i \in 1..(Len(s) - 1) : ~(s[i] = " " /\ s[i + 1] = " ")

\* C5 as stated: for every string of A-Z, 0-9 and single spaces, a space at
\* the start or the end and the one-space string included,
\* morse_to_text(text_to_morse(s)) = s.
C5_RoundTripWithOuterSpaces ==
    (pc = "done" /\ OnlySingleSpaces(word)) => roundtrip = word

\* C5 as amended: for every string of A-Z, 0-9 and single spaces that neither
\* starts nor ends with a space, morse_to_text(text_to_morse(s)) = s.
C5_RoundTripInnerSpaces ==
    (/\ pc = "done"
     /\ OnlySingleSpaces(word)
     /\ word # <<>> => (word[1] # " " /\ word[Len(word)] # " "))
        => roundtrip = word

\* C5's case: a text of two words has made the round trip
C5_Witness ==
    /\ pc = "done"
    /\ Len(word) >= 3
    /\ \E i \in 2..(Len(word) - 1) : word[i] = " "
    /\ word[1] # " " /\ word[Len(word)] # " "
    /\ roundtrip = word

(***************************************************************************)
(* Properties of the document rules.                                       *)
(***************************************************************************)
\* whether the string w stands in t at position i
Occurs(t, i, w) ==
    /\ i >= 1
    /\ i + Len(w) - 1 <= Len(t)
    /\ \A k \in 1..Len(w) : t[i + k - 1] = w[k]

\* the same, letter case ignored
OccursAnyCase(t, i, w) == Occurs(LowerStr(t), i, LowerStr(w))

\* whether position i of t holds a letter, a digit or an underscore
WordCharAt(t, i) == i >= 1 /\ i <= Len(t) /\ t[i] \in WordSet

\* whether a word starts or ends between positions i - 1 and i of t
Edge(t, i) == WordCharAt(t, i - 1) # WordCharAt(t, i)

S_there_is_no_time == <<"t", "h", "e", "r", "e", " ", "i", "s", " ", "n", "o", " ", "t", "i", "m", "e">>

\* the positions of the phrase in the whitespace-collapsed, lower-cased text
PhrasePositions(t) ==
    {i \in 1..Len(Compact(t)) : Occurs(Compact(t), i, S_there_is_no_time)}

\* C6 as stated: if the whitespace-collapsed, lower-cased text contains the
\* character sequence "there is no time" anywhere, also next to further
\* letters, derive_password returns "thereisnotime" whatever the Field Mapping
\* holds; otherwise it returns the Field Mapping's PASSWORD value, or the empty
\* string when that key is absent.
C6_PhraseAnywhere ==
    pc = "done" =>
        password = IF PhrasePositions(clue_text) # {} THEN S_thereisnotime
                   ELSE IF "PASSWORD" \in DOMAIN fields THEN fields["PASSWORD"]
                   ELSE <<>>

\* C6 as amended: if the whitespace-collapsed, lower-cased text contains
\* "there is no time" as whole words, that is, at least once neither preceded
\* nor followed at once by a letter, a digit or an underscore, derive_password
\* returns "thereisnotime" whatever the Field Mapping holds; otherwise it
\* returns the Field Mapping's PASSWORD value, or the empty string when that
\* key is absent.
C6_PhraseAsWords ==
    pc = "done" =>
        LET c == Compact(clue_text)
            whole == {i \in PhrasePositions(clue_text) :
                         /\ ~WordCharAt(c, i - 1)
                         /\ ~WordCharAt(c, i + Len(S_there_is_no_time))}
        IN  password = IF whole # {} THEN S_thereisnotime
                       ELSE IF "PASSWORD" \in DOMAIN fields THEN fields["PASSWORD"]
                       ELSE <<>>

\* C6's case: the phrase, spread over lines and in capitals, overrides a
\* PASSWORD value
C6_Witness ==
    /\ pc = "done"
    /\ "PASSWORD" \in DOMAIN fields
    /\ password = S_thereisnotime
    /\ \A i \in 1..Len(clue_text) : ~Occurs(clue_text, i, S_there_is_no_time)

\* whether "until", whitespace and the day, not followed by a word character,
\* stand in t at position i
UntilDayAt(t, i, day) ==
    /\ OccursAnyCase(t, i, S_until)
    /\ \E k \in (i + Len(S_until) + 1)..Len(t) :
          /\ \A j \in (i + Len(S_until))..(k - 1) : t[j] \in SpaceSet
          /\ OccursAnyCase(t, k, day)
          /\ ~WordCharAt(t, k + Len(day))

UntilPositions(t) ==
    {i \in 1..Len(t) : \E day \in {S_Friday, S_Sunday} : UntilDayAt(t, i, day)}

\* C8: derive_timer returns "<Day> 11:59 PM", Day the capitalized weekday of
\* the last occurrence of "until <Friday|Sunday>" (case-insensitive), however
\* many earlier occurrences name the other day; with no occurrence it returns
\* "11:59 PM".
C8_LastDayWins ==
    pc = "done" =>
        LET occ == UntilPositions(clue_text)
            last == CHOOSE i \in occ : \A j \in occ : j <= i
        IN  IF occ = {} THEN timer = S_DefaultTimer
            ELSE \E day \in {S_Friday, S_Sunday} :
                    /\ UntilDayAt(clue_text, last, day)
                    /\ timer = day \o <<" ">> \o S_DefaultTimer

\* C8's case: two occurrences name Friday, the last one names Sunday
C8_Witness ==
    /\ pc = "done"
    /\ \E h, i, j \in UntilPositions(clue_text) :
          /\ h < i /\ i < j
          /\ UntilDayAt(clue_text, h, S_Friday)
          /\ UntilDayAt(clue_text, i, S_Friday)
          /\ UntilDayAt(clue_text, j, S_Sunday)
          /\ \A k \in UntilPositions(clue_text) : k <= j
    /\ timer = S_Sunday \o <<" ">> \o S_DefaultTimer

EmailLocalChars == AlnumSet \cup {".", "_", "%", "+", "-"}
EmailDomainChars == AlnumSet \cup {".", "-"}

\* whether t[i..j] has the shape of an email: a local part, "@", a domain,
\* ".", and two letters or more, between word edges
EmailShape(t, i, j) ==
    /\ Edge(t, i) /\ Edge(t, j + 1)
    /\ \E a \in (i + 1)..(j - 4) :
          /\ t[a] = "@"
          /\ \A k \in i..(a - 1) : t[k] \in EmailLocalChars
          /\ \E d \in (a + 2)..(j - 2) :
                /\ t[d] = "."
                /\ \A k \in (a + 1)..(d - 1) : t[k] \in EmailDomainChars
                /\ \A k \in (d + 1)..j : t[k] \in AlphaSet

EmailShapes(t) == {ij \in (1..Len(t)) \X (1..Len(t)) : EmailShape(t, ij[1], ij[2])}

\* whether a "<Word> Society" phrase stands in t at position i, Word ending
\* before position e
SocietyPhraseAt(t, i, e) ==
    /\ Edge(t, i)
    /\ e > i
    /\ \A k \in i..(e - 1) : t[k] \in AlphaSet
    /\ \E k \in (e + 1)..Len(t) :
          /\ \A j \in e..(k - 1) : t[j] \in SpaceSet
          /\ OccursAnyCase(t, k, S_Society)
          /\ Edge(t, k + Len(S_Society))

SocietyPhrases(t) ==
    {ie \in (1..Len(t)) \X (1..Len(t)) : SocietyPhraseAt(t, ie[1], ie[2])}

HasDukeWord(t) ==
    \E i \in 1..Len(t) :
        Edge(t, i) /\ OccursAnyCase(t, i, S_Duke) /\ Edge(t, i + Len(S_Duke))

S_at_duke_edu == <<"@", "d", "u", "k", "e", ".", "e", "d", "u">>

\* C9: derive_email returns the first substring of email shape if there is
\* one; otherwise, if the text has a "<Word> Society" phrase and the word
\* "Duke", the lower-cased Word of the first such phrase followed by
\* "@duke.edu"; otherwise "unknown@unknown.edu".
C9_EmailPrecedence ==
    pc = "done" =>
        LET shapes == EmailShapes(clue_text)
            phrases == SocietyPhrases(clue_text)
        IN  IF shapes # {}
            THEN \E ij \in shapes :
                    /\ email = SubSeq(clue_text, ij[1], ij[2])
                    /\ \A other \in shapes : ij[1] <= other[1]
            ELSE IF phrases # {} /\ HasDukeWord(clue_text)
            THEN \E ie \in phrases :
                    /\ \A other \in phrases : ie[1] <= other[1]
                    /\ email = LowerStr(SubSeq(clue_text, ie[1], ie[2] - 1))
                               \o S_at_duke_edu
            ELSE email = S_DefaultEmail

\* C9's case: no email in the text, and the address is made from the Word of
\* the first of two Society phrases
C9_Witness ==
    /\ pc = "done"
    /\ EmailShapes(clue_text) = {}
    /\ \E p, q \in SocietyPhrases(clue_text) : p[1] < q[1]
    /\ email # S_DefaultEmail

S_LOCATION == "LOCATION"

\* the positions where the word "Durham" starts, and those just after a
\* phrase "North Carolina"
DurhamStarts(t) ==
    {i \in 1..Len(t) :
        Edge(t, i) /\ OccursAnyCase(t, i, S_Durham) /\ Edge(t, i + Len(S_Durham))}
CarolinaEnds(t) ==
    {e \in 1..(Len(t) + 1) :
        /\ Edge(t, e - Len(S_NorthCarolina))
        /\ OccursAnyCase(t, e - Len(S_NorthCarolina), S_NorthCarolina)
        /\ Edge(t, e)}

\* C10: for a text with no coordinate pair, the LOCATION value of
\* extract_validated_fields is the shortest span from the first word "Durham"
\* to the nearest following phrase "North Carolina", so that it ends at the
\* first "North Carolina" after "Durham"; with a coordinate pair, LOCATION is
\* the first coordinate pair.
C10_ShortestSpan ==
    (pc = "done" /\ S_LOCATION \in DOMAIN fields) =>
        IF Search(COORD_RE, clue_text, 1) # <<>>
        THEN fields[S_LOCATION] = Group0(clue_text, Search(COORD_RE, clue_text, 1))
        ELSE LET first == CHOOSE i \in DurhamStarts(clue_text) :
                              \A j \in DurhamStarts(clue_text) : i <= j
                 after == {e \in CarolinaEnds(clue_text) :
                              e >= first + Len(S_Durham) + Len(S_NorthCarolina)}
                 nearest == CHOOSE e \in after : \A d \in after : e <= d
             IN  fields[S_LOCATION] = SubSeq(clue_text, first, nearest - 1)

(***************************************************************************)
(* Properties of main.                                                     *)
(***************************************************************************)
\* the waveform or the document text is unavailable: the audio file or the
\* document is missing, the text extraction fails, or the extracted text is
\* empty
Unavailable == ~audio_exists \/ pdf # "ok" \/ document = <<>>

RunEnded == pc \in {"returned", "failed", "done"}

\* C7 as stated: in every run in which the waveform or the document text is
\* unavailable, the run does not fail and reaches the final-output step with
\* all six answers, the documented defaults standing for what could not be
\* extracted.
C7_DefaultsWhenUnavailable ==
    (Unavailable /\ RunEnded) =>
        /\ pc = "done"
        /\ pdf # "ok" =>
              /\ timer = S_DefaultTimer
              /\ location = S_UnknownLocation
              /\ email = S_DefaultEmail
              /\ web = S_DefaultWeb
              /\ password = <<>>

\* C7 as amended: in every run in which the audio file is missing, or the
\* audio file is there and the document text is unavailable, the run does not
\* fail, and it returns before the final-output step: none of the six answers
\* is produced and no default is substituted.
C7_UnavailableReturnsEarly ==
    Unavailable =>
        /\ pc \in {"start", "audio_info", "returned"}
        /\ NoAnswers
        /\ phone = <<>>

\* C7's case: the audio file is there, pdftotext is not, and the run has
\* returned
C7_Witness ==
    /\ audio_exists
    /\ pdf = "no_pdftotext"
    /\ pc = "returned"

====
